---- MODULE Spec2Model ----
(***************************************************************************)
(* Model of irdrop.py: the four view parsers (.cdev, .spiprof, .pgarc,     *)
(* .lib), the ingestion loop of the main script, the error set and the     *)
(* three consistency checks that run against the populated store.          *)
(*                                                                         *)
(* Text is modelled after splitting: a line is the sequence of its         *)
(* delimiter-separated fragments, a fragment is its variable name and the  *)
(* blank-separated words right of the '='.  Floats are fixed-point         *)
(* integers in units of 1e-4.  A Python dict is the sequence of its        *)
(* <<key, value>> pairs in insertion order.                                *)
(***************************************************************************)
EXTENDS Integers, Sequences, FiniteSets, TLC

VARIABLES
    files,          \* the input list read from args.input_file
    idx,            \* position in files of the file the loop is at
    pc,             \* position of the script / of the called parser
    db,             \* the committed content of the four tables
    pending,        \* the rows inserted on the connection and not yet committed
    commits,        \* per file begun, the number of connection.commit() calls
    error_set,      \* the global error_set
    report,         \* what output_errors printed and wrote
    cell,           \* argument of parse_cdev_cell
    sub_cells,      \* parse_cdev_cell's line groups
    parsed,         \* what parse_cdev_sub_cell returned for each line group
    sub_cell_dict,  \* parse_cdev_cell's result dictionary
    spiprof_cell    \* argument of parse_spiprof_cell

vars == <<files, idx, pc, db, pending, commits, error_set, report,
          cell, sub_cells, parsed, sub_cell_dict, spiprof_cell>>

----------------------------------------------------------------------------
(* Values, words and dictionaries                                          *)

\* A parsed value: a float (f) or the raw string (its words).
Num(n) == [f |-> TRUE, n |-> n, s |-> <<>>]
Str(ws) == [f |-> FALSE, n |-> 0, s |-> ws]

\* The words float() accepts, with their value in units of 1e-4.
FloatWords == {"0", "0.5", "0.50", "1.0", "1.00", "1.2", "12.5", "25",
               "0.88", "0.92", "0.96", "1.05", "1.10", "1.15", "1.0005"}

Float(w) ==
    CASE w = "0" -> 0
      [] w = "0.5" -> 5000
      [] w = "0.50" -> 5000
      [] w = "1.0" -> 10000
      [] w = "1.00" -> 10000
      [] w = "1.2" -> 12000
      [] w = "12.5" -> 125000
      [] w = "25" -> 250000
      [] w = "0.88" -> 8800
      [] w = "0.92" -> 9200
      [] w = "0.96" -> 9600
      [] w = "1.05" -> 10500
      [] w = "1.10" -> 11000
      [] w = "1.15" -> 11500
      [] w = "1.0005" -> 10005

IsFloat(w) == w \in FloatWords

Last(s) == s[Len(s)]

Keys(d) == {d[i][1] : i \in DOMAIN d}
Has(d, k) == k \in Keys(d)
Get(d, k) == d[CHOOSE i \in DOMAIN d : d[i][1] = k][2]
\* d[k] = v: an existing key keeps its place, a new key goes last.
Put(d, k, v) ==
    IF Has(d, k)
    THEN [i \in DOMAIN d |-> IF d[i][1] = k THEN <<k, v>> ELSE d[i]]
    ELSE Append(d, <<k, v>>)

\* str(dict): the keys and values in insertion order, keys quoted, floats by
\* their repr (one text per float value), strings quoted.
DictStr(d) ==
    [i \in 1..(2 * Len(d)) |->
        IF i % 2 = 1 THEN Str(<<d[(i + 1) \div 2][1]>>) ELSE d[i \div 2][2]]

----------------------------------------------------------------------------
(* Unit tables and the error set                                           *)

CdevUnitNames == {"voltage", "esc", "esr", "leak", "Temperature"}
CDEV_UNITS(v) ==
    CASE v = "voltage" -> "V"
      [] v = "esc" -> "F"
      [] v = "esr" -> "ohm"
      [] v = "leak" -> "A"
      [] v = "Temperature" -> "C"

SpiprofUnitNames == {"VPWR", "C1", "R", "C2", "Slew1", "Slew2", "peak", "area", "width"}
SPIPROF_UNITS(v) ==
    CASE v = "VPWR" -> "V"
      [] v = "C1" -> "F"
      [] v = "R" -> "Ohm"
      [] v = "C2" -> "F"
      [] v = "Slew1" -> "S"
      [] v = "Slew2" -> "S"
      [] v = "peak" -> "A"
      [] v = "area" -> "C"
      [] v = "width" -> "S"

\* A message: its text pieces in order (a number is the piece "#", its value
\* in nums) behind the prefix error() puts in front.
Msg(text, nums) == [prefix |-> "", text |-> text, nums |-> nums]
Prefixed(m) == [m EXCEPT !.prefix = "ERROR: "]

\* error() keeping only the latest message.
ErrorKeepsLatest(es, message) == {Prefixed(message)}

error(es, message) ==
    IF message \notin es THEN es \cup {Prefixed(message)} ELSE es

----------------------------------------------------------------------------
(* .cdev parsing                                                           *)

\* A fragment "<variable> = <words>"; eq is whether it holds a '='.
Frag(v, ws) == [eq |-> TRUE, variable |-> v, data |-> ws]
NoEq == [eq |-> FALSE, variable |-> "", data |-> <<>>]

\* line.strip().startswith('pin = ')
IsPinLine(line) ==
    /\ Len(line) > 0
    /\ line[1].eq
    /\ line[1].variable = "pin"

UnknownUnit(unit, variable, cell_name) ==
    Msg(<<"Unknown unit '", unit, "' for variable '", variable,
          "' in cdev cell: ", cell_name>>, <<>>)

UnknownVariable(variable, cell_name) ==
    Msg(<<"Unknown variable '", variable, "' for cdev cell: ", cell_name>>, <<>>)

\* The diagnostics of a float value with a unit.
CheckUnitSkipped(variable, unit, cell_name, pin_dict, es) == es

CheckUnit(variable, unit, cell_name, pin_dict, es) ==
    IF variable \in CdevUnitNames
    THEN IF unit # CDEV_UNITS(variable)
         THEN error(es, UnknownUnit(unit, variable, cell_name))
         ELSE es
    ELSE IF ~Has(pin_dict, variable)
         THEN error(es, UnknownVariable(variable, cell_name))
         ELSE es

parse_cdev_parameter(parameter, cell_name, pin_dict, es) ==
    IF ~parameter.eq
    THEN [raised |-> TRUE, variable |-> "", value |-> Str(<<>>), es |-> es]
    ELSE LET variable == parameter.variable
             data == parameter.data
             has_unit == Len(data) = 2
         IN IF has_unit /\ IsFloat(data[1])
            THEN [raised |-> FALSE, variable |-> variable,
                  value |-> Num(Float(data[1])),
                  es |-> CheckUnit(variable, data[2], cell_name, pin_dict, es)]
            ELSE [raised |-> FALSE, variable |-> variable,
                  value |-> Str(data), es |-> es]

\* for parameter in parameters[1:] of one pin line
RECURSIVE PinParameters(_, _, _, _, _)
PinParameters(parameters, i, pin_name, cell_name, S) ==
    IF S.raised \/ i > Len(parameters) THEN S
    ELSE LET r == parse_cdev_parameter(parameters[i], cell_name, <<>>, S.es)
         IN IF r.raised THEN [S EXCEPT !.raised = TRUE]
            ELSE PinParameters(parameters, i + 1, pin_name, cell_name,
                    [S EXCEPT !.es = r.es,
                              !.pin_dict = Put(@, pin_name,
                                  Put(Get(@, pin_name), r.variable, r.value))])

\* for line in pin_lines
RECURSIVE PinLines(_, _, _, _)
PinLines(pin_lines, i, cell_name, S) ==
    IF S.raised \/ i > Len(pin_lines) THEN S
    ELSE LET parameters == pin_lines[i]
             first == parameters[1].data
             pin_name == IF first = <<>> THEN "=" ELSE Last(first)
             S1 == IF Has(S.pin_dict, pin_name) THEN S
                   ELSE [S EXCEPT !.pin_dict = Put(@, pin_name, <<>>)]
         IN PinLines(pin_lines, i + 1, cell_name,
                     PinParameters(parameters, 2, pin_name, cell_name, S1))

\* for parameter in parameters of one parameter line
RECURSIVE LineParameters(_, _, _, _)
LineParameters(parameters, i, cell_name, S) ==
    IF S.raised \/ i > Len(parameters) THEN S
    ELSE IF ~parameters[i].eq
         THEN LineParameters(parameters, i + 1, cell_name, S)
         ELSE LET r == parse_cdev_parameter(parameters[i], cell_name,
                                            S.pin_dict, S.es)
                  pd == IF Has(S.pin_dict, r.variable)
                        THEN Put(S.pin_dict, r.variable,
                                 Put(Get(S.pin_dict, r.variable), "voltage", r.value))
                        ELSE S.pin_dict
              IN LineParameters(parameters, i + 1, cell_name,
                    [S EXCEPT !.es = r.es,
                              !.parameter_dict = Put(@, r.variable, r.value),
                              !.pin_dict = pd])

\* for line in parameter_lines
RECURSIVE ParameterLines(_, _, _, _)
ParameterLines(parameter_lines, i, cell_name, S) ==
    IF S.raised \/ i > Len(parameter_lines) THEN S
    ELSE ParameterLines(parameter_lines, i + 1, cell_name,
            LineParameters(parameter_lines[i], 1, cell_name, S))

NotPinLine(line) == ~IsPinLine(line)

\* Returns parameter_dict and pin_dict, the error set after the sub cell, and
\* whether an exception left the function.
parse_cdev_sub_cell(sub_cell, cell_name, es) ==
    LET pin_lines == SelectSeq(sub_cell, IsPinLine)
        parameter_lines == SelectSeq(sub_cell, NotPinLine)
        S0 == [raised |-> FALSE, es |-> es, pin_dict |-> <<>>,
               parameter_dict |-> <<>>]
    IN ParameterLines(parameter_lines, 1, cell_name,
                      PinLines(pin_lines, 1, cell_name, S0))

\* The scanner without pin_previous: every line that is no pin line starts a
\* new sub cell.
RECURSIVE SplitAtEveryParameterLine(_, _, _)
SplitAtEveryParameterLine(cell_data, acc, pin_previous) ==
    IF cell_data = <<>> THEN acc
    ELSE LET line == Head(cell_data)
             started == IF ~IsPinLine(line) THEN Append(acc, <<>>) ELSE acc
         IN SplitAtEveryParameterLine(Tail(cell_data),
                [started EXCEPT ![Len(started)] = Append(@, line)],
                IsPinLine(line))

\* The two-state line scanner: a line that is no pin line and follows a pin
\* line starts a new sub cell.
RECURSIVE SplitSubCells(_, _, _)
SplitSubCells(cell_data, acc, pin_previous) ==
    IF cell_data = <<>> THEN acc
    ELSE LET line == Head(cell_data)
             pin_current == IsPinLine(line)
             started == IF ~pin_current /\ pin_previous
                        THEN Append(acc, <<>>) ELSE acc
         IN SplitSubCells(Tail(cell_data),
                          [started EXCEPT ![Len(started)] = Append(@, line)],
                          pin_current)

\* sub_cell_dict[parameter_data_hash] = parameter_data, then ['pins'] = pin_data:
\* an entry is the parameter dictionary with its 'pins'.
StoreSubCell(scd, parameter_data_hash, parameter_data, pin_data) ==
    Put(scd, parameter_data_hash,
        [parameters |-> parameter_data, pins |-> pin_data])

\* for sub_cell in sub_cells
RECURSIVE SubCells(_, _, _, _)
SubCells(scs, i, cell_name, S) ==
    IF S.raised \/ i > Len(scs) THEN S
    ELSE LET r == parse_cdev_sub_cell(scs[i], cell_name, S.es)
         IN IF r.raised THEN [S EXCEPT !.raised = TRUE, !.es = r.es]
            ELSE SubCells(scs, i + 1, cell_name,
                    [S EXCEPT !.es = r.es,
                              !.parsed = Append(@,
                                  [parameter_data |-> r.parameter_dict,
                                   pin_data |-> r.pin_dict]),
                              !.sub_cell_dict =
                                  StoreSubCell(@, DictStr(r.parameter_dict),
                                               r.parameter_dict, r.pin_dict)])

\* c is a cell block: its name line and its data lines.
parse_cdev_cell(c, es) ==
    SubCells(SplitSubCells(c.lines, << <<>> >>, FALSE), 1, c.name,
             [raised |-> FALSE, es |-> es, parsed |-> <<>>,
              sub_cell_dict |-> <<>>])

----------------------------------------------------------------------------
(* parse_cdev_cell on its own: every cell block of at most MaxLines lines  *)
(* over CdevLines.                                                         *)

MaxLines == 4

CdevNames == {"and2_1x"}

ParamA == <<Frag("State", <<"s1">>), Frag("VPWR", <<"1.0", "V">>), NoEq>>
ParamB == <<Frag("VPWR", <<"1.0", "V">>), Frag("State", <<"s1">>)>>
ParamC == <<Frag("Temperature", <<"25", "K">>), Frag("State", <<"s2">>)>>
PinA == <<Frag("pin", <<"VPWR">>), Frag("esc", <<"0.5", "F">>),
          Frag("esr", <<"12.5", "ohm">>)>>
PinB == <<Frag("pin", <<"VGND">>), Frag("esr", <<"12.5", "F">>)>>
PinC == <<Frag("pin", <<"VPWR">>), Frag("leak", <<"n/a", "A">>)>>
PinD == <<Frag("pin", <<"VDD">>), NoEq>>

CdevLines == {ParamA, ParamB, ParamC, PinA, PinB, PinC, PinD}

SeqsUpTo(S, n) == UNION {[1..k -> S] : k \in 0..n}

NoCell == [name |-> "", lines |-> <<>>]
NoSpiprofCell == [head |-> <<>>, groups |-> <<>>]
EmptyDb == [cdev |-> <<>>, spiprof |-> <<>>, pgarc |-> <<>>, lib |-> <<>>]
NoReport == [stdout |-> "", written |-> FALSE, lines |-> <<>>]

InitCdev ==
    /\ cell \in [name : CdevNames, lines : SeqsUpTo(CdevLines, MaxLines)]
    /\ pc = "call"
    /\ sub_cells = <<>>
    /\ parsed = <<>>
    /\ sub_cell_dict = <<>>
    /\ error_set = {}
    /\ files = <<>>
    /\ idx = 0
    /\ db = EmptyDb
    /\ pending = EmptyDb
    /\ commits = <<>>
    /\ report = NoReport
    /\ spiprof_cell = NoSpiprofCell

ParseCdevCell ==
    /\ pc = "call"
    /\ LET r == parse_cdev_cell(cell, error_set)
       IN /\ pc' = IF r.raised THEN "raise" ELSE "return"
          /\ sub_cells' = SplitSubCells(cell.lines, << <<>> >>, FALSE)
          /\ parsed' = r.parsed
          /\ sub_cell_dict' = r.sub_cell_dict
          /\ error_set' = r.es
    /\ UNCHANGED <<files, idx, db, pending, commits, report, cell, spiprof_cell>>

NextCdev == ParseCdevCell

SpecCdev == InitCdev /\ [][NextCdev]_vars

----------------------------------------------------------------------------
(* Claims about parse_cdev_cell (SpecCdev)                                 *)

Range(d) == {d[i] : i \in DOMAIN d}

\* The line groups whose parameter dictionary equals that of group i.
SameParameters(i) ==
    {k \in DOMAIN parsed : parsed[k].parameter_data = parsed[i].parameter_data}

\* C1: two sub-blocks of one cell with identical parameter dictionaries (same
\* names, values and order) end as exactly one variation, whose pins are the
\* union of the pins of all sub-blocks with these parameters.
C1_MergeKeepsAllPins ==
    pc = "return" =>
        \A i, j \in DOMAIN parsed :
            (i < j /\ parsed[i].parameter_data = parsed[j].parameter_data) =>
                LET key == DictStr(parsed[i].parameter_data)
                IN /\ Cardinality({k \in DOMAIN sub_cell_dict :
                                      sub_cell_dict[k][1] = key}) = 1
                   /\ Keys(Get(sub_cell_dict, key).pins) =
                          UNION {Keys(parsed[k].pin_data) : k \in SameParameters(i)}

\* C2: two sub-blocks of one cell with the same set of (name, value)
\* parameters, in whatever order, get the same key and end as one variation.
C2_KeyIgnoresOrder ==
    pc = "return" =>
        \A i, j \in DOMAIN parsed :
            Range(parsed[i].parameter_data) = Range(parsed[j].parameter_data) =>
                /\ DictStr(parsed[i].parameter_data) = DictStr(parsed[j].parameter_data)
                /\ Cardinality({k \in DOMAIN sub_cell_dict :
                        Range(sub_cell_dict[k][2].parameters)
                            = Range(parsed[i].parameter_data)}) = 1

\* A fragment parse_cdev_parameter reads as <float> <unit> with a unit other
\* than the table's.
WrongUnit(fr) ==
    /\ fr.eq
    /\ fr.variable \in CdevUnitNames
    /\ Len(fr.data) = 2
    /\ IsFloat(fr.data[1])
    /\ fr.data[2] # CDEV_UNITS(fr.variable)

\* The fragments of line group g that parse_cdev_parameter is called on:
\* <<line, position>>.
ParsedFragments(g) ==
    {lj \in (DOMAIN sub_cells[g]) \X (1..4) :
        /\ lj[2] \in DOMAIN sub_cells[g][lj[1]]
        /\ sub_cells[g][lj[1]][lj[2]].eq
        /\ IsPinLine(sub_cells[g][lj[1]]) => lj[2] >= 2}

PinNameOf(line) == IF line[1].data = <<>> THEN "=" ELSE Last(line[1].data)

\* Where the value of fragment lj of group g is kept, unless a later fragment
\* of the group assigned the same place.
Later(a, b) == a[1] > b[1] \/ (a[1] = b[1] /\ a[2] > b[2])

Overwritten(g, lj) ==
    LET line == sub_cells[g][lj[1]]
        fr == line[lj[2]]
    IN \E o \in ParsedFragments(g) :
          LET oline == sub_cells[g][o[1]]
          IN IF IsPinLine(line)
             THEN \/ /\ IsPinLine(oline)
                     /\ PinNameOf(oline) = PinNameOf(line)
                     /\ oline[o[2]].variable = fr.variable
                     /\ Later(o, lj)
                  \/ /\ ~IsPinLine(oline)
                     /\ fr.variable = "voltage"
                     /\ oline[o[2]].variable = PinNameOf(line)
             ELSE /\ ~IsPinLine(oline)
                  /\ oline[o[2]].variable = fr.variable
                  /\ Later(o, lj)

StoredValue(g, lj) ==
    LET line == sub_cells[g][lj[1]]
        fr == line[lj[2]]
    IN IF IsPinLine(line)
       THEN Get(Get(parsed[g].pin_data, PinNameOf(line)), fr.variable)
       ELSE Get(parsed[g].parameter_data, fr.variable)

Names(m, w) == \E i \in DOMAIN m.text : m.text[i] = w

\* The diagnostics that name the variable, the cell and the unit found.
UnitDiagnostics(fr) ==
    {m \in error_set : /\ Names(m, fr.variable)
                       /\ Names(m, cell.name)
                       /\ Names(m, fr.data[2])}

\* C7 as stated: the diagnostic of a wrong unit names the expected unit too.
C7_NamesExpectedUnit ==
    pc = "return" =>
        \A g \in DOMAIN sub_cells : \A lj \in ParsedFragments(g) :
            LET fr == sub_cells[g][lj[1]][lj[2]]
            IN WrongUnit(fr) =>
                  \E m \in UnitDiagnostics(fr) : Names(m, CDEV_UNITS(fr.variable))

\* C7, amended: a <float> <unit> field with a unit other than the table's
\* leaves exactly one diagnostic, which names the variable, the cell and the
\* unit found; the float is what the field's place holds.
C7_UnitDiagnostic ==
    pc = "return" =>
        \A g \in DOMAIN sub_cells : \A lj \in ParsedFragments(g) :
            LET fr == sub_cells[g][lj[1]][lj[2]]
            IN WrongUnit(fr) =>
                  /\ UnitDiagnostics(fr) =
                         {Prefixed(UnknownUnit(fr.data[2], fr.variable, cell.name))}
                  /\ ~Overwritten(g, lj) =>
                         StoredValue(g, lj) = Num(Float(fr.data[1]))

C7_Witness ==
    /\ pc = "return"
    /\ \E g \in DOMAIN sub_cells : \E lj \in ParsedFragments(g) :
          /\ sub_cells[g][lj[1]][lj[2]] = Frag("esr", <<"12.5", "F">>)
          /\ StoredValue(g, lj) = Num(125000)
    /\ Prefixed(UnknownUnit("F", "esr", cell.name)) \in error_set

----------------------------------------------------------------------------
(* .spiprof parsing                                                        *)

\* A fragment without ' = ' that is not the empty string.
Bare(v) == [eq |-> FALSE, variable |-> v, data |-> <<>>]

\* cell_name.startswith(prefix), over the cell names of the model.
StartsWith(cell_name, prefix) ==
    <<cell_name, prefix>> \in {<<"dff_1x", "dff">>, <<"sdff_1x", "sdff">>,
                               <<"latch_1x", "latch">>}

IncorrectVoltageUnits(cell_name, unit) ==
    Msg(<<"Cell ", cell_name, " has incorrect voltage units. Expected \"",
          SPIPROF_UNITS("VPWR"), "\" but found \"", unit, "\".">>, <<>>)

IncorrectUnits(cell_name, name, unit) ==
    Msg(<<"Cell ", cell_name, " has incorrect ", name, " units. Expected \"",
          SPIPROF_UNITS(name), "\" but found \"", unit, "\".">>, <<>>)

StateCount(cell_name, kind, expected, found) ==
    Msg(<<"Cell ", cell_name, " is probably ", kind, ", so it should have ",
          "#", " states. Instead, it has ", "#", " states.">>,
        <<expected, found>>)

\* A header or data fragment "<name> = <float> <unit>" that raises: no ' = ',
\* no float, no unit word.
BadNumber(fr) ==
    \/ ~fr.eq
    \/ Len(fr.data) < 2
    \/ ~IsFloat(fr.data[1])

\* for parameter in spiprof_parameters_raw, after the voltage
RECURSIVE HeaderParameters(_, _, _, _)
HeaderParameters(raw, i, cell_name, S) ==
    IF S.raised \/ i > Len(raw) THEN S
    ELSE LET fr == raw[i]
         IN IF BadNumber(fr) \/ fr.variable \notin SpiprofUnitNames
            THEN [S EXCEPT !.raised = TRUE]
            ELSE HeaderParameters(raw, i + 1, cell_name,
                    [S EXCEPT !.es = IF fr.data[2] # SPIPROF_UNITS(fr.variable)
                                     THEN error(@, IncorrectUnits(cell_name,
                                                     fr.variable, fr.data[2]))
                                     ELSE @,
                              !.dict = Put(@, fr.variable, Float(fr.data[1]))])

\* Returns the parameter dictionary and the voltage (name, value) pair.
parse_spiprof_parameters(cell_name, parameters, es) ==
    IF parameters = <<>> \/ BadNumber(parameters[1])
    THEN [raised |-> TRUE, es |-> es, dict |-> <<>>, voltage |-> <<"", 0>>]
    ELSE LET v == parameters[1]
             es1 == IF v.data[2] # SPIPROF_UNITS("VPWR")
                    THEN error(es, IncorrectVoltageUnits(cell_name, v.data[2]))
                    ELSE es
         IN HeaderParameters(parameters, 2, cell_name,
                [raised |-> FALSE, es |-> es1, dict |-> <<>>,
                 voltage |-> <<v.variable, Float(v.data[1])>>])

\* The state-count check of one sub cell.
CheckStateCountDffOnly(cell_name, n, es) ==
    IF StartsWith(cell_name, "dff")
    THEN IF n # 4 THEN error(es, StateCount(cell_name, "sequential", 4, n))
         ELSE es
    ELSE IF n # 2 THEN error(es, StateCount(cell_name, "combinational", 2, n))
         ELSE es

CheckStateCount(cell_name, n, es) ==
    IF StartsWith(cell_name, "dff") \/ StartsWith(cell_name, "sdff")
           \/ StartsWith(cell_name, "latch")
    THEN IF n # 4 THEN error(es, StateCount(cell_name, "sequential", 4, n))
         ELSE es
    ELSE IF n # 2 THEN error(es, StateCount(cell_name, "combinational", 2, n))
         ELSE es

\* for parameter in spiprof_data_parameters_raw, after the state
RECURSIVE StateParameters(_, _, _)
StateParameters(raw, i, S) ==
    IF S.raised \/ i > Len(raw) THEN S
    ELSE IF raw[i] = NoEq THEN StateParameters(raw, i + 1, S)
    ELSE IF ~raw[i].eq THEN [S EXCEPT !.raised = TRUE]
    ELSE StateParameters(raw, i + 1,
            [S EXCEPT !.dict = Put(@, raw[i].variable, raw[i].data)])

\* for spiprof_data_label in spiprof_data_labels, on one data line
RECURSIVE DataLabels(_, _, _, _, _)
DataLabels(labels, i, raw, cell_name, S) ==
    IF S.raised \/ i > Len(labels) THEN S
    ELSE IF \/ Len(raw) < 2 * i
            \/ ~IsFloat(raw[2 * i - 1])
            \/ labels[i] \notin SpiprofUnitNames
         THEN [S EXCEPT !.raised = TRUE]
         ELSE DataLabels(labels, i + 1, raw, cell_name,
                 [S EXCEPT !.es = IF raw[2 * i] # SPIPROF_UNITS(labels[i])
                                  THEN error(@, IncorrectUnits(cell_name,
                                                  labels[i], raw[2 * i]))
                                  ELSE @,
                           !.dict = Put(@, labels[i], Float(raw[2 * i - 1]))])

\* The keys the INSERT statement reads.
InsertKeysPresent(cell_parameters, state_dict, pin_data_dict) ==
    /\ {"C1", "R", "C2", "Slew1", "Slew2"} \subseteq Keys(cell_parameters)
    /\ {"state", "vector", "active_input", "active_output"} \subseteq Keys(state_dict)
    /\ {"peak", "area", "width"} \subseteq Keys(pin_data_dict)

SpiprofRow(cell_name, voltage_parameter, cell_parameters, state_dict, pin, pdd) ==
    [cell |-> cell_name, vpwr |-> voltage_parameter[2],
     c1 |-> Get(cell_parameters, "C1"), r |-> Get(cell_parameters, "R"),
     c2 |-> Get(cell_parameters, "C2"), slew1 |-> Get(cell_parameters, "Slew1"),
     slew2 |-> Get(cell_parameters, "Slew2"),
     state |-> Get(state_dict, "state"), vector |-> Get(state_dict, "vector"),
     active_input |-> Get(state_dict, "active_input"),
     active_output |-> Get(state_dict, "active_output"),
     pin |-> pin, peak |-> Get(pdd, "peak"), area |-> Get(pdd, "area"),
     width |-> Get(pdd, "width")]

\* for spiprof_data_line in spiprof_data_lines; a line is its words, S.rows
\* the rows inserted so far.
RECURSIVE DataLines(_, _, _, _, _, _, _)
DataLines(lines, i, labels, state_dict, cell_name, vp, S) ==
    IF S.raised \/ i > Len(lines) THEN S
    ELSE IF lines[i] = <<>> \/ lines[i] = <<"Info:", "Done">>
         THEN DataLines(lines, i + 1, labels, state_dict, cell_name, vp, S)
         ELSE LET pin == Head(lines[i])
                  L == DataLabels(labels, 1, Tail(lines[i]), cell_name,
                                  [raised |-> FALSE, es |-> S.es, dict |-> <<>>])
              IN IF L.raised
                        \/ ~InsertKeysPresent(S.cell_parameters, state_dict, L.dict)
                 THEN [S EXCEPT !.raised = TRUE, !.es = L.es]
                 ELSE DataLines(lines, i + 1, labels, state_dict, cell_name, vp,
                         [S EXCEPT !.es = L.es,
                                   !.rows = Append(@,
                                       SpiprofRow(cell_name, vp, S.cell_parameters,
                                                  state_dict, pin, L.dict))])

\* for data_group in spiprof_data_group_list; a data group is the state
\* line's fragments (the state label first), the label line's words after the
\* first, and the data lines.
RECURSIVE DataGroups(_, _, _, _, _)
DataGroups(groups, i, cell_name, vp, S) ==
    IF S.raised \/ i > Len(groups) THEN S
    ELSE LET g == groups[i]
             P == StateParameters(g.parameters, 1,
                     [raised |-> FALSE, dict |-> <<<<"state", <<g.state>>>>>>])
         IN IF P.raised \/ ~g.labelled
            THEN [S EXCEPT !.raised = TRUE]
            ELSE DataGroups(groups, i + 1, cell_name, vp,
                    DataLines(g.lines, 1, g.labels, P.dict, cell_name, vp, S))

\* parse_spiprof_sub_cell leaving out the states of a sub cell whose state
\* count it reports.
SubCellDroppedOnCount(cell_name, voltage_parameter, cell_parameters, sub_cell, S) ==
    LET es1 == CheckStateCount(cell_name, Len(sub_cell), {})
        S1 == [S EXCEPT !.es = @ \cup es1]
        R == DataGroups(sub_cell, 1, cell_name, voltage_parameter,
                 [raised |-> FALSE, es |-> S1.es, rows |-> S1.rows,
                  cell_parameters |-> cell_parameters])
    IN IF es1 # {} THEN [raised |-> FALSE, es |-> S1.es, rows |-> S.rows]
       ELSE [raised |-> R.raised, es |-> R.es, rows |-> R.rows]

\* sub_cell is the list of data groups right of the first 'state = ' marker.
parse_spiprof_sub_cell(cell_name, voltage_parameter, cell_parameters, sub_cell, S) ==
    LET S1 == [S EXCEPT !.es = CheckStateCount(cell_name, Len(sub_cell), @)]
        R == DataGroups(sub_cell, 1, cell_name, voltage_parameter,
                 [raised |-> FALSE, es |-> S1.es, rows |-> S1.rows,
                  cell_parameters |-> cell_parameters])
    IN [raised |-> R.raised, es |-> R.es, rows |-> R.rows]

\* for sub_cell in spiprof_sub_cells; a sub cell is blank ('\n'), or its
\* header fragments and, behind the ';\n' if there is one (sep), its body.
RECURSIVE SpiprofSubCells(_, _, _, _)
SpiprofSubCells(scs, i, cell_name, S) ==
    IF S.raised \/ i > Len(scs) THEN S
    ELSE IF scs[i].blank THEN SpiprofSubCells(scs, i + 1, cell_name, S)
    ELSE LET H == parse_spiprof_parameters(cell_name, scs[i].header, S.es)
         IN IF H.raised \/ ~scs[i].sep
            THEN [S EXCEPT !.raised = TRUE, !.es = H.es]
            ELSE SpiprofSubCells(scs, i + 1, cell_name,
                    parse_spiprof_sub_cell(cell_name, H.voltage, H.dict,
                        scs[i].body, [S EXCEPT !.es = H.es]))

\* c is a cell block: the words of its first fragment, and its sub cells.
\* rows are the rows inserted on the connection before the call.
parse_spiprof_cell(c, es, rows) ==
    IF c.head = <<>>
    THEN [raised |-> TRUE, es |-> es, rows |-> rows]
    ELSE SpiprofSubCells(c.groups, 1, c.head[1],
                         [raised |-> FALSE, es |-> es, rows |-> rows])

----------------------------------------------------------------------------
(* parse_spiprof_cell on its own: every cell block of at most MaxGroups    *)
(* sub cells over SpiprofGroups.                                           *)

MaxGroups == 2
MaxStates == 5

SpiprofNames == {"dff_1x", "sdff_1x", "latch_1x", "and2_1x", "xdff_1x"}

DataGroup(label, lines) ==
    [state |-> label,
     parameters |-> <<Frag("vector", <<"v1">>), Frag("active_input", <<"A">>),
                      Frag("active_output", <<"Y">>), NoEq>>,
     labelled |-> TRUE,
     labels |-> <<"peak", "area", "width">>,
     lines |-> lines]

PinLineVPWR == <<"VPWR", "0.5", "A", "0.5", "C", "0.5", "S">>
PinLineVGND == <<"VGND", "0.5", "A", "0.5", "F", "0.5", "S">>

Body(n) == [k \in 1..n |-> DataGroup(ToString(k), <<PinLineVPWR, <<>> >>)]

Header(voltage) ==
    <<Frag("VPWR", voltage), Frag("C1", <<"0.5", "F">>),
      Frag("R", <<"0.5", "Ohm">>), Frag("C2", <<"0.5", "F">>),
      Frag("Slew1", <<"0.5", "S">>), Frag("Slew2", <<"0.5", "S">>)>>

SubCell(voltage, body) ==
    [blank |-> FALSE, sep |-> TRUE, header |-> Header(voltage), body |-> body]
BlankSubCell == [blank |-> TRUE, sep |-> FALSE, header |-> <<>>, body |-> <<>>]
NoSepSubCell ==
    [blank |-> FALSE, sep |-> FALSE, header |-> Header(<<"1.0", "V">>),
     body |-> <<>>]

SpiprofGroups ==
    {SubCell(<<"1.0", "V">>, Body(n)) : n \in 0..MaxStates}
        \cup {SubCell(<<"0.88", "mV">>,
                      <<DataGroup("1", <<PinLineVPWR, PinLineVGND>>),
                        DataGroup("2", <<PinLineVPWR, <<"Info:", "Done">> >>)>>),
              BlankSubCell, NoSepSubCell}

InitSpiprof ==
    /\ spiprof_cell \in [head : {<<n>> : n \in SpiprofNames},
                         groups : SeqsUpTo(SpiprofGroups, MaxGroups)]
    /\ pc = "call"
    /\ error_set = {}
    /\ db = EmptyDb
    /\ pending = EmptyDb
    /\ files = <<>>
    /\ idx = 0
    /\ commits = <<>>
    /\ report = NoReport
    /\ cell = NoCell
    /\ sub_cells = <<>>
    /\ parsed = <<>>
    /\ sub_cell_dict = <<>>

ParseSpiprofCell ==
    /\ pc = "call"
    /\ LET r == parse_spiprof_cell(spiprof_cell, error_set, pending.spiprof)
       IN /\ pc' = IF r.raised THEN "raise" ELSE "return"
          /\ error_set' = r.es
          /\ pending' = [pending EXCEPT !.spiprof = r.rows]
    /\ UNCHANGED <<files, idx, db, commits, report, cell, sub_cells, parsed,
                   sub_cell_dict, spiprof_cell>>

NextSpiprof == ParseSpiprofCell

SpecSpiprof == InitSpiprof /\ [][NextSpiprof]_vars

----------------------------------------------------------------------------
(* Claims about parse_spiprof_cell (SpecSpiprof)                           *)

ExpectedStates(cell_name) ==
    IF cell_name \in {"dff_1x", "sdff_1x", "latch_1x"} THEN 4 ELSE 2

\* The numbers of state blocks of the cell's sub cells.
GroupCounts ==
    {Len(spiprof_cell.groups[i].body) :
        i \in {k \in DOMAIN spiprof_cell.groups : ~spiprof_cell.groups[k].blank}}

StateCountDiagnostics ==
    {m \in error_set : /\ Len(m.text) >= 3
                       /\ m.text[2] = spiprof_cell.head[1]
                       /\ m.text[3] = " is probably "}

\* C8 as stated: a cell with a sub cell of another number of state blocks
\* than expected has exactly one state-count diagnostic, however many sub
\* cells it has; a conforming cell has none.
C8_OneDiagnosticPerCell ==
    pc = "return" =>
        IF \E n \in GroupCounts : n # ExpectedStates(spiprof_cell.head[1])
        THEN Cardinality(StateCountDiagnostics) = 1
        ELSE StateCountDiagnostics = {}

\* C8, amended: the state-count diagnostics of a cell are those of the
\* numbers of state blocks, other than the expected one, that its sub cells
\* have: one per such number, stating the expected number (4 for dff, sdff,
\* latch, 2 otherwise) and the number found; none for a conforming cell.
C8_StateCountRule ==
    pc = "return" =>
        LET e == ExpectedStates(spiprof_cell.head[1])
            kind == IF e = 4 THEN "sequential" ELSE "combinational"
        IN StateCountDiagnostics =
               {Prefixed(StateCount(spiprof_cell.head[1], kind, e, n)) :
                    n \in GroupCounts \ {e}}

C8_Witness ==
    /\ pc = "return"
    /\ spiprof_cell.head[1] = "sdff_1x"
    /\ GroupCounts = {2, 4}
    /\ Cardinality(StateCountDiagnostics) = 1

----------------------------------------------------------------------------
(* Ingestion: insert_cdev, parse_spiprof, parse_pgarc, insert_lib          *)

\* The value a numeric column of an INSERT statement takes: the statement
\* fails unless the text put into it is a number.
IsSqlNumber(v) == v.f \/ (Len(v.s) = 1 /\ IsFloat(v.s[1]))
SqlNumber(v) == IF v.f THEN v.n ELSE Float(v.s[1])

\* for cell in cells of parse_cdev; cell_dict[cell_name] = cell_data
RECURSIVE CdevCells(_, _, _)
CdevCells(cells, i, S) ==
    IF S.raised \/ i > Len(cells) THEN S
    ELSE IF cells[i].name = <<>> THEN [S EXCEPT !.raised = TRUE]
    ELSE LET r == parse_cdev_cell([name |-> cells[i].name[1],
                                   lines |-> cells[i].lines], S.es)
         IN IF r.raised THEN [S EXCEPT !.raised = TRUE, !.es = r.es]
            ELSE CdevCells(cells, i + 1,
                    [S EXCEPT !.es = r.es,
                              !.cell_dict = Put(@, cells[i].name[1],
                                                r.sub_cell_dict)])

\* cells[-1] without its last line: a cell block is its name line (<<>> when
\* it has none) and its data lines.
WithoutLastLine(c) ==
    IF c.lines = <<>> THEN [name |-> <<>>, lines |-> <<>>]
    ELSE [c EXCEPT !.lines = SubSeq(@, 1, Len(@) - 1)]

\* text is the list of cell blocks behind the 'Info: cell=' markers.
parse_cdev(text, es) ==
    IF text = <<>>
    THEN [raised |-> TRUE, es |-> es, cell_dict |-> <<>>]
    ELSE CdevCells([text EXCEPT ![Len(text)] = WithoutLastLine(@)], 1,
                   [raised |-> FALSE, es |-> es, cell_dict |-> <<>>])

CdevKeysPresent(parameters, pin_data) ==
    /\ {"Temperature", "State", "vector", "active_input", "active_output",
        "VPWR", "VGND"} \subseteq Keys(parameters)
    /\ {"esc", "esr", "leak"} \subseteq Keys(pin_data)

CdevNumbers(parameters, pin_data) ==
    /\ \A k \in {"Temperature", "VPWR", "VGND"} : IsSqlNumber(Get(parameters, k))
    /\ \A k \in {"esc", "esr", "leak"} : IsSqlNumber(Get(pin_data, k))

CdevRow(c, parameters, pin, pin_data, filename) ==
    [cell |-> c, temperature |-> SqlNumber(Get(parameters, "Temperature")),
     state |-> Get(parameters, "State"), vector |-> Get(parameters, "vector"),
     active_input |-> Get(parameters, "active_input"),
     active_output |-> Get(parameters, "active_output"),
     vpwr |-> SqlNumber(Get(parameters, "VPWR")),
     vgnd |-> SqlNumber(Get(parameters, "VGND")),
     pin |-> pin, esc |-> SqlNumber(Get(pin_data, "esc")),
     esr |-> SqlNumber(Get(pin_data, "esr")),
     leak |-> SqlNumber(Get(pin_data, "leak")), filename |-> filename]

\* for pin, pin_data in parameters['pins'].items()
RECURSIVE CdevPins(_, _, _, _, _, _)
CdevPins(pins, i, c, parameters, filename, S) ==
    IF S.raised \/ i > Len(pins) THEN S
    ELSE IF ~CdevKeysPresent(parameters, pins[i][2])
    THEN [S EXCEPT !.raised = TRUE]
    ELSE IF ~CdevNumbers(parameters, pins[i][2])
    THEN [S EXCEPT !.raised = TRUE]
    ELSE CdevPins(pins, i + 1, c, parameters, filename,
            [S EXCEPT !.rows = Append(@,
                CdevRow(c, parameters, pins[i][1], pins[i][2], filename))])

\* for parameters in parameters_variations.values()
RECURSIVE CdevVariations(_, _, _, _, _)
CdevVariations(variations, i, c, filename, S) ==
    IF S.raised \/ i > Len(variations) THEN S
    ELSE CdevVariations(variations, i + 1, c, filename,
            CdevPins(variations[i][2].pins, 1, c, variations[i][2].parameters,
                     filename, S))

\* for cell, parameters_variations in cells.items()
RECURSIVE CdevInserts(_, _, _, _)
CdevInserts(cells, i, filename, S) ==
    IF S.raised \/ i > Len(cells) THEN S
    ELSE CdevInserts(cells, i + 1, filename,
            CdevVariations(cells[i][2], 1, cells[i][1], filename, S))

\* A parser's outcome: whether an exception left it, the error set, the rows
\* it committed, the rows it inserted and did not commit, and its commits.
Outcome(raised, es, committed, uncommitted, n) ==
    [raised |-> raised, es |-> es, committed |-> committed,
     uncommitted |-> uncommitted, commits |-> n]

insert_cdev(file, es) ==
    LET P == parse_cdev(file.text, es)
    IN IF P.raised THEN Outcome(TRUE, P.es, <<>>, <<>>, 0)
       ELSE LET I == CdevInserts(P.cell_dict, 1, file.name,
                                 [raised |-> FALSE, rows |-> <<>>])
            IN IF I.raised THEN Outcome(TRUE, P.es, <<>>, I.rows, 0)
               ELSE Outcome(FALSE, P.es, I.rows, <<>>, 1)

\* for spiprof_cell in spiprof_cells: parse the cell, then commit.
RECURSIVE SpiprofCells(_, _, _)
SpiprofCells(cells, i, S) ==
    IF S.raised \/ i > Len(cells) THEN S
    ELSE LET r == parse_spiprof_cell(cells[i], S.es, <<>>)
         IN IF r.raised
            THEN Outcome(TRUE, r.es, S.committed, r.rows, S.commits)
            ELSE SpiprofCells(cells, i + 1,
                    Outcome(FALSE, r.es, S.committed \o r.rows, <<>>,
                            S.commits + 1))

parse_spiprof(file, es) ==
    SpiprofCells(file.text, 1, Outcome(FALSE, es, <<>>, <<>>, 0))

PgarcWords(words) == SelectSeq(words, LAMBDA w : w # "" /\ w # "pgarc")

\* for pin in cell_pins
PgarcRows(cell_name, cell_pins) ==
    [i \in DOMAIN cell_pins |-> [cell |-> cell_name, pin |-> cell_pins[i]]]

\* for cell in cells; a cell block is its words, braces and newlines taken
\* as blanks.
RECURSIVE PgarcCells(_, _, _)
PgarcCells(cells, i, S) ==
    IF S.raised \/ i > Len(cells) THEN S
    ELSE LET cell_words == PgarcWords(cells[i])
         IN IF cell_words = <<>> THEN [S EXCEPT !.raised = TRUE]
            ELSE PgarcCells(cells, i + 1,
                    [S EXCEPT !.uncommitted =
                        @ \o PgarcRows(Head(cell_words), Tail(cell_words))])

parse_pgarc(file, es) ==
    LET R == PgarcCells(file.text, 1, Outcome(FALSE, es, <<>>, <<>>, 0))
    IN IF R.raised THEN R
       ELSE Outcome(FALSE, es, R.uncommitted, <<>>, 1)

\* The first line of a cell block that starts with 'area : ', 0 if none.
AreaLine(lines) ==
    IF \E i \in DOMAIN lines : lines[i].area
    THEN CHOOSE i \in DOMAIN lines :
             lines[i].area /\ \A j \in 1..(i - 1) : ~lines[j].area
    ELSE 0

\* for cell_raw in cells_raw; S.area is the local variable area, S.bound
\* whether it has been assigned.  A line is whether it starts with
\* 'area : ' and the text behind the prefix, its ';' taken off.
RECURSIVE LibCells(_, _, _, _)
LibCells(cells_raw, i, filename, S) ==
    IF S.raised \/ i > Len(cells_raw) THEN S
    ELSE LET a == AreaLine(cells_raw[i].lines)
             word == cells_raw[i].lines[a].value
         IN IF a # 0 /\ ~IsFloat(word) THEN [S EXCEPT !.raised = TRUE]
            ELSE IF a = 0 /\ ~S.bound THEN [S EXCEPT !.raised = TRUE]
            ELSE LET area == IF a # 0 THEN Float(word) ELSE S.area
                 IN LibCells(cells_raw, i + 1, filename,
                       [S EXCEPT !.bound = TRUE, !.area = area,
                                 !.rows = Append(@,
                                     [cell |-> cells_raw[i].name, area |-> area,
                                      filename |-> filename])])

insert_lib(file, es) ==
    LET R == LibCells(file.text, 1, file.name,
                      [raised |-> FALSE, bound |-> FALSE, area |-> 0,
                       rows |-> <<>>])
    IN IF R.raised THEN Outcome(TRUE, es, <<>>, R.rows, 0)
       ELSE Outcome(FALSE, es, R.rows, <<>>, 1)

----------------------------------------------------------------------------
(* The consistency checks                                                  *)

\* SELECT DISTINCT: the first occurrence of every value, in table order.
RECURSIVE Distinct(_)
Distinct(q) ==
    IF q = <<>> THEN <<>>
    ELSE LET front == Distinct(SubSeq(q, 1, Len(q) - 1))
         IN IF Last(q) \in Range(front) THEN front ELSE Append(front, Last(q))

CellPin(table) == Distinct([i \in DOMAIN table |-> <<table[i].cell, table[i].pin>>])
CellVpwr(table) == Distinct([i \in DOMAIN table |-> <<table[i].cell, table[i].vpwr>>])

NotInCdev(c) == Msg(<<"cell ", c, " in pgarc but not in cdev">>, <<>>)
NotInSpiprof(c) == Msg(<<"cell ", c, " in pgarc but not in spiprof">>, <<>>)

\* for cell in cursor.execute(query), the rows of pgarc whose cell is in no
\* row of the other table
RECURSIVE MissingCells(_, _, _, _, _)
MissingCells(pgarc, i, other, view, es) ==
    IF i > Len(pgarc) THEN es
    ELSE MissingCells(pgarc, i + 1, other, view,
            IF \E k \in DOMAIN other : other[k].cell = pgarc[i].cell
            THEN es
            ELSE error(es, IF view = "cdev" THEN NotInCdev(pgarc[i].cell)
                           ELSE NotInSpiprof(pgarc[i].cell)))

\* compare_cell_names without its second query.
CompareCdevOnly(d, es) == MissingCells(d.pgarc, 1, d.cdev, "cdev", es)

compare_cell_names(d, es) ==
    MissingCells(d.pgarc, 1, d.spiprof, "spiprof",
                 MissingCells(d.pgarc, 1, d.cdev, "cdev", es))

variation_percentages == <<88, 92, 96, 100, 105, 110, 115>>

\* np.around(percentage * nominal, decimals = 4): the percentage is in
\* hundredths, the voltages in units of 1e-4; a tie goes to the even digit.
Around(x) ==
    LET q == x \div 100
        r == x % 100
    IN IF r < 50 THEN q
       ELSE IF r > 50 THEN q + 1
       ELSE IF q % 2 = 0 THEN q ELSE q + 1

VoltageExpected(voltage, c) ==
    Msg(<<"voltage ", "#", " expected in cell ", c, " but not found">>,
        <<voltage>>)

\* for voltage in voltage_variations
RECURSIVE Variations(_, _, _, _, _)
Variations(i, nominal_value, c, extracted_voltages, es) ==
    IF i > Len(variation_percentages) THEN es
    ELSE LET voltage == Around(variation_percentages[i] * nominal_value)
         IN Variations(i + 1, nominal_value, c, extracted_voltages,
                IF voltage \notin extracted_voltages
                THEN error(es, VoltageExpected(voltage, c)) ELSE es)

\* for cell in nominal_voltages: indexing the empty spiprof_voltages array
\* by [:,0] raises.
RECURSIVE NominalVoltages(_, _, _, _)
NominalVoltages(nominal_voltages, i, spiprof_voltages, S) ==
    IF S.raised \/ i > Len(nominal_voltages) THEN S
    ELSE IF spiprof_voltages = <<>> THEN [S EXCEPT !.raised = TRUE]
    ELSE LET c == nominal_voltages[i][1]
             extracted_voltages ==
                 {spiprof_voltages[k][2] :
                     k \in {j \in DOMAIN spiprof_voltages :
                               spiprof_voltages[j][1] = c}}
         IN NominalVoltages(nominal_voltages, i + 1, spiprof_voltages,
                IF extracted_voltages # {}
                THEN [S EXCEPT !.es = Variations(1, nominal_voltages[i][2], c,
                                                 extracted_voltages, @)]
                ELSE S)

\* check_voltage_variations without its loop.
CheckVoltagesSkipped(d, es) == [raised |-> FALSE, es |-> es]

check_voltage_variations(d, es) ==
    NominalVoltages(CellVpwr(d.cdev), 1, CellVpwr(d.spiprof),
                    [raised |-> FALSE, es |-> es])

PinMismatch(pin, view, c) ==
    Msg(<<"pin ", pin, " mismatch between pgarc and ", view, " for cell ", c>>,
        <<>>)

ExtractedPins(pin_names, c) ==
    {pin_names[k][2] : k \in {j \in DOMAIN pin_names : pin_names[j][1] = c}}

\* A sub-check of compare_pin_names.
SubCheckUnguarded(pin_name, extracted_pins, view, c, es) ==
    IF pin_name \notin extracted_pins
    THEN error(es, PinMismatch(pin_name, view, c)) ELSE es

SubCheck(pin_name, extracted_pins, view, c, es) ==
    IF extracted_pins # {}
    THEN IF pin_name \notin extracted_pins
         THEN error(es, PinMismatch(pin_name, view, c)) ELSE es
    ELSE es

\* for cell in pgarc_pin_names: indexing an empty cdev_pin_names or
\* spiprof_pin_names array by [:,0] raises.
RECURSIVE PgarcPinNames(_, _, _, _, _)
PgarcPinNames(pgarc_pin_names, i, cdev_pin_names, spiprof_pin_names, S) ==
    IF S.raised \/ i > Len(pgarc_pin_names) THEN S
    ELSE IF cdev_pin_names = <<>> \/ spiprof_pin_names = <<>>
    THEN [S EXCEPT !.raised = TRUE]
    ELSE LET c == pgarc_pin_names[i][1]
             pin_name == pgarc_pin_names[i][2]
         IN PgarcPinNames(pgarc_pin_names, i + 1, cdev_pin_names,
                spiprof_pin_names,
                [S EXCEPT !.es =
                    SubCheck(pin_name, ExtractedPins(spiprof_pin_names, c),
                             "spiprof", c,
                        SubCheck(pin_name, ExtractedPins(cdev_pin_names, c),
                                 "cdev", c, @))])

compare_pin_names(d, es) ==
    PgarcPinNames(CellPin(d.pgarc), 1, CellPin(d.cdev), CellPin(d.spiprof),
                  [raised |-> FALSE, es |-> es])

\* The entries of the set in the order the for loop meets them.
RECURSIVE SetLines(_)
SetLines(es) ==
    IF es = {} THEN <<>>
    ELSE LET e == CHOOSE x \in es : TRUE
         IN <<e>> \o SetLines(es \ {e})

\* output_errors without the test of an empty set.
OutputAlways(es) ==
    [stdout |-> "Errors found. Please refer to ", written |-> TRUE,
     lines |-> SetLines(es)]

output_errors(es) ==
    IF Cardinality(es) = 0
    THEN [stdout |-> "No errors found.", written |-> FALSE, lines |-> <<>>]
    ELSE [stdout |-> "Errors found. Please refer to ", written |-> TRUE,
          lines |-> SetLines(es)]

----------------------------------------------------------------------------
(* The main script over every list of at most MaxFiles of the files below  *)

MaxFiles == 3

CdevParameters(state, vpwr) ==
    <<Frag("Temperature", <<"25", "C">>), Frag("State", <<state>>),
      Frag("vector", <<"v1">>), Frag("active_input", <<"A">>),
      Frag("active_output", <<"Y">>), Frag("VPWR", <<vpwr, "V">>),
      Frag("VGND", <<"0", "V">>), NoEq>>

CdevPin(pin, unit) ==
    <<Frag("pin", <<pin>>), Frag("esc", <<"0.5", "F">>),
      Frag("esr", <<"12.5", unit>>), Frag("leak", <<"0.5", "A">>)>>

InfoLine == <<Bare("Info: Done")>>

\* One cell, one variation, both pins.
CdevA ==
    [name |-> "a.cdev",
     text |-> <<[name |-> <<"and2_1x">>,
                 lines |-> <<CdevParameters("s1", "1.0"), CdevPin("VPWR", "ohm"),
                             CdevPin("VGND", "ohm"), InfoLine>>]>>]

\* Two cells: a wrong unit, a pin missing, a variation given twice.
CdevB ==
    [name |-> "b.cdev",
     text |-> <<[name |-> <<"and2_1x">>,
                 lines |-> <<CdevParameters("s1", "1.0"), CdevPin("VPWR", "F")>>],
                [name |-> <<"dff_1x">>,
                 lines |-> <<CdevParameters("s1", "1.2"), CdevPin("VPWR", "ohm"),
                             CdevParameters("s1", "1.2"), CdevPin("VGND", "ohm"),
                             InfoLine>>]>>]

\* The second cell has no VGND parameter.
CdevBad ==
    [name |-> "bad.cdev",
     text |-> <<[name |-> <<"and2_1x">>,
                 lines |-> <<CdevParameters("s1", "1.0"), CdevPin("VPWR", "ohm")>>],
                [name |-> <<"dff_1x">>,
                 lines |-> <<<<Frag("Temperature", <<"25", "C">>),
                               Frag("State", <<"s1">>), Frag("vector", <<"v1">>),
                               Frag("active_input", <<"A">>),
                               Frag("active_output", <<"Y">>),
                               Frag("VPWR", <<"1.0", "V">>)>>,
                             CdevPin("VPWR", "ohm"), InfoLine>>]>>]

SpiprofBody(pins) ==
    [k \in 1..2 |-> DataGroup(ToString(k), pins \o << <<>> >>)]

AllVoltages == <<"0.88", "0.92", "0.96", "1.00", "1.05", "1.10", "1.15">>

\* One cell with its seven voltages, two states each.
SpiprofA ==
    [name |-> "a.spiprof",
     text |-> <<[head |-> <<"and2_1x">>,
                 groups |-> [i \in DOMAIN AllVoltages |->
                     SubCell(<<AllVoltages[i], "V">>,
                             SpiprofBody(<<PinLineVPWR,
                                 <<"VGND", "0.5", "A", "0.5", "C", "0.5", "S">> >>))]
                 ]>>]

\* Two cells with one voltage each; the second is sequential with two states.
SpiprofB ==
    [name |-> "b.spiprof",
     text |-> <<[head |-> <<"and2_1x">>,
                 groups |-> <<SubCell(<<"1.0", "V">>, SpiprofBody(<<PinLineVPWR>>)),
                              BlankSubCell>>],
                [head |-> <<"dff_1x">>,
                 groups |-> <<SubCell(<<"1.2", "mV">>,
                                      SpiprofBody(<<PinLineVGND>>))>>]>>]

\* The second cell has a sub cell without the ';\n' behind its header.
SpiprofBad ==
    [name |-> "bad.spiprof",
     text |-> <<[head |-> <<"and2_1x">>,
                 groups |-> <<SubCell(<<"1.0", "V">>, SpiprofBody(<<PinLineVPWR>>))>>],
                [head |-> <<"dff_1x">>,
                 groups |-> <<SubCell(<<"1.0", "V">>, SpiprofBody(<<PinLineVPWR>>)),
                              NoSepSubCell>>]>>]

PgarcA ==
    [name |-> "a.pgarc",
     text |-> <<<<"and2_1x", "", "", "pgarc", "", "VPWR", "VGND", "", "">>>>]

PgarcB ==
    [name |-> "b.pgarc",
     text |-> <<<<"and2_1x", "", "pgarc", "VPWR", "VDD", "">>,
                <<"dff_1x", "", "pgarc", "VPWR", "VPWR", "">>,
                <<"xor2_1x", "", "pgarc", "VPWR", "">>>>]

\* The second cell block holds no word.
PgarcBad ==
    [name |-> "bad.pgarc",
     text |-> <<<<"and2_1x", "", "pgarc", "VPWR", "">>, <<"", "">>>>]

LibLine(value) == [area |-> TRUE, value |-> value]
OtherLine == [area |-> FALSE, value |-> ""]

\* The second cell has no area line.
LibA ==
    [name |-> "a.lib",
     text |-> <<[name |-> "and2_1x", lines |-> <<OtherLine, LibLine("1.2"),
                                                 LibLine("0.5")>>],
                [name |-> "dff_1x", lines |-> <<OtherLine>>]>>]

\* The area of the second cell is no number.
LibBad ==
    [name |-> "bad.lib",
     text |-> <<[name |-> "and2_1x", lines |-> <<LibLine("1.2")>>],
                [name |-> "dff_1x", lines |-> <<LibLine("n/a")>>]>>]

\* The first cell has no area line.
LibNoArea ==
    [name |-> "noarea.lib",
     text |-> <<[name |-> "and2_1x", lines |-> <<OtherLine>>],
                [name |-> "dff_1x", lines |-> <<LibLine("1.2")>>]>>]

\* One minimal file per format for one cell: a variation with pin VPWR at
\* a nominal voltage, a sub cell at a voltage with two states of pin VPWR,
\* the pin in pgarc, an area.
MinimalCells == {"and2_1x", "dff_1x"}

MinCdev(c, vpwr, filename) ==
    [name |-> filename,
     text |-> <<[name |-> <<c>>,
                 lines |-> <<<<Frag("Temperature", <<"25", "C">>),
                               Frag("State", <<"s1">>), Frag("vector", <<"v1">>),
                               Frag("active_input", <<"A">>),
                               Frag("active_output", <<"Y">>),
                               Frag("VPWR", <<vpwr, "V">>),
                               Frag("VGND", <<"0">>), NoEq>>,
                             CdevPin("VPWR", "ohm"), InfoLine>>]>>]

MinSpiprof(c, voltage, filename) ==
    [name |-> filename,
     text |-> <<[head |-> <<c>>,
                 groups |-> <<SubCell(<<voltage, "V">>,
                                      SpiprofBody(<<PinLineVPWR>>))>>]>>]

MinPgarc(c, filename) ==
    [name |-> filename, text |-> <<<<c, "", "pgarc", "VPWR", "">>>>]

MinLib(c, filename) ==
    [name |-> filename,
     text |-> <<[name |-> c, lines |-> <<OtherLine, LibLine("1.2")>>]>>]

\* The files there are, by name.
FileNames == {"a.cdev", "b.cdev", "bad.cdev", "a.spiprof", "b.spiprof",
              "bad.spiprof", "a.pgarc", "b.pgarc", "bad.pgarc", "a.lib",
              "bad.lib", "noarea.lib", "readme.txt"}

\* open(filename).read(), split at the cell markers.
Open(filename) ==
    CASE filename = "a.cdev" -> CdevA
      [] filename = "b.cdev" -> CdevB
      [] filename = "bad.cdev" -> CdevBad
      [] filename = "a.spiprof" -> SpiprofA
      [] filename = "b.spiprof" -> SpiprofB
      [] filename = "bad.spiprof" -> SpiprofBad
      [] filename = "a.pgarc" -> PgarcA
      [] filename = "b.pgarc" -> PgarcB
      [] filename = "bad.pgarc" -> PgarcBad
      [] filename = "a.lib" -> LibA
      [] filename = "bad.lib" -> LibBad
      [] filename = "noarea.lib" -> LibNoArea
      [] filename = "and2_1x.cdev" -> MinCdev("and2_1x", "1.0", filename)
      [] filename = "and2_1x_0v.cdev" -> MinCdev("and2_1x", "0", filename)
      [] filename = "and2_1x.spiprof" -> MinSpiprof("and2_1x", "1.0", filename)
      [] filename = "and2_1x_0v.spiprof" -> MinSpiprof("and2_1x", "0", filename)
      [] filename = "and2_1x.pgarc" -> MinPgarc("and2_1x", filename)
      [] filename = "and2_1x.lib" -> MinLib("and2_1x", filename)
      [] filename = "dff_1x.cdev" -> MinCdev("dff_1x", "1.0", filename)
      [] filename = "dff_1x_0v.cdev" -> MinCdev("dff_1x", "0", filename)
      [] filename = "dff_1x.spiprof" -> MinSpiprof("dff_1x", "1.0", filename)
      [] filename = "dff_1x_0v.spiprof" -> MinSpiprof("dff_1x", "0", filename)
      [] filename = "dff_1x.pgarc" -> MinPgarc("dff_1x", filename)
      [] filename = "dff_1x.lib" -> MinLib("dff_1x", filename)

\* file.endswith('.' + ext)
EndsWith(filename, ext) ==
    <<filename, ext>> \in
        {<<"a.cdev", "cdev">>, <<"b.cdev", "cdev">>, <<"bad.cdev", "cdev">>,
         <<"a.spiprof", "spiprof">>, <<"b.spiprof", "spiprof">>,
         <<"bad.spiprof", "spiprof">>, <<"a.pgarc", "pgarc">>,
         <<"b.pgarc", "pgarc">>, <<"bad.pgarc", "pgarc">>, <<"a.lib", "lib">>,
         <<"bad.lib", "lib">>, <<"noarea.lib", "lib">>,
         <<"and2_1x.cdev", "cdev">>, <<"and2_1x_0v.cdev", "cdev">>,
         <<"and2_1x.spiprof", "spiprof">>, <<"and2_1x_0v.spiprof", "spiprof">>,
         <<"and2_1x.pgarc", "pgarc">>, <<"and2_1x.lib", "lib">>,
         <<"dff_1x.cdev", "cdev">>, <<"dff_1x_0v.cdev", "cdev">>,
         <<"dff_1x.spiprof", "spiprof">>, <<"dff_1x_0v.spiprof", "spiprof">>,
         <<"dff_1x.pgarc", "pgarc">>, <<"dff_1x.lib", "lib">>}

Init ==
    /\ files \in {q \in SeqsUpTo(FileNames, MaxFiles) :
                     \A i, j \in DOMAIN q : i # j => q[i] # q[j]}
    /\ idx = 1
    /\ pc = "loop"
    /\ db = EmptyDb
    /\ pending = EmptyDb
    /\ commits = <<>>
    /\ error_set = {}
    /\ report = NoReport
    /\ cell = NoCell
    /\ sub_cells = <<>>
    /\ parsed = <<>>
    /\ sub_cell_dict = <<>>
    /\ spiprof_cell = NoSpiprofCell

\* The loop body going on to the next file behind an exception.
IngestSwallowing(table, R) ==
    /\ db' = [db EXCEPT ![table] = @ \o R.committed]
    /\ pending' = [pending EXCEPT ![table] = R.uncommitted]
    /\ commits' = Append(commits, R.commits)
    /\ error_set' = R.es
    /\ idx' = idx + 1
    /\ pc' = "loop"
    /\ UNCHANGED <<files, report, cell, sub_cells, parsed, sub_cell_dict,
                   spiprof_cell>>

\* One pass of the loop body for a file of a parsed type: the rows that were
\* committed are in the store, an exception ends the script.
Ingest(table, R) ==
    /\ db' = [db EXCEPT ![table] = @ \o R.committed]
    /\ pending' = [pending EXCEPT ![table] = R.uncommitted]
    /\ commits' = Append(commits, R.commits)
    /\ error_set' = R.es
    /\ idx' = IF R.raised THEN idx ELSE idx + 1
    /\ pc' = IF R.raised THEN "raised in loop" ELSE "loop"
    /\ UNCHANGED <<files, report, cell, sub_cells, parsed, sub_cell_dict,
                   spiprof_cell>>

\* The loop is at a file of an ending that comes behind the endings tried
\* before it.
AtFile(ext, before) ==
    /\ pc = "loop"
    /\ idx <= Len(files)
    /\ \A e \in before : ~EndsWith(files[idx], e)
    /\ EndsWith(files[idx], ext)

InsertCdev ==
    /\ AtFile("cdev", {})
    /\ Ingest("cdev", insert_cdev(Open(files[idx]), error_set))

ParseSpiprof ==
    /\ AtFile("spiprof", {"cdev"})
    /\ Ingest("spiprof", parse_spiprof(Open(files[idx]), error_set))

InsertLib ==
    /\ AtFile("lib", {"cdev", "spiprof"})
    /\ Ingest("lib", insert_lib(Open(files[idx]), error_set))

ParsePgarc ==
    /\ AtFile("pgarc", {"cdev", "spiprof", "lib"})
    /\ Ingest("pgarc", parse_pgarc(Open(files[idx]), error_set))

\* A file of no known ending is passed over.
SkipFile ==
    /\ pc = "loop"
    /\ idx <= Len(files)
    /\ \A e \in {"cdev", "spiprof", "lib", "pgarc"} : ~EndsWith(files[idx], e)
    /\ idx' = idx + 1
    /\ commits' = Append(commits, 0)
    /\ UNCHANGED <<files, pc, db, pending, error_set, report, cell, sub_cells,
                   parsed, sub_cell_dict, spiprof_cell>>

CompareCellNames ==
    /\ pc = "loop"
    /\ idx > Len(files)
    /\ error_set' = compare_cell_names(db, error_set)
    /\ pc' = "voltages"
    /\ UNCHANGED <<files, idx, db, pending, commits, report, cell, sub_cells,
                   parsed, sub_cell_dict, spiprof_cell>>

CheckVoltageVariations ==
    /\ pc = "voltages"
    /\ LET R == check_voltage_variations(db, error_set)
       IN /\ error_set' = R.es
          /\ pc' = IF R.raised THEN "raised in voltages" ELSE "pins"
    /\ UNCHANGED <<files, idx, db, pending, commits, report, cell, sub_cells,
                   parsed, sub_cell_dict, spiprof_cell>>

ComparePinNames ==
    /\ pc = "pins"
    /\ LET R == compare_pin_names(db, error_set)
       IN /\ error_set' = R.es
          /\ pc' = IF R.raised THEN "raised in pins" ELSE "report"
    /\ UNCHANGED <<files, idx, db, pending, commits, report, cell, sub_cells,
                   parsed, sub_cell_dict, spiprof_cell>>

OutputErrors ==
    /\ pc = "report"
    /\ report' = output_errors(error_set)
    /\ pc' = "done"
    /\ UNCHANGED <<files, idx, db, pending, commits, error_set, cell, sub_cells,
                   parsed, sub_cell_dict, spiprof_cell>>

Next ==
    \/ InsertCdev
    \/ ParseSpiprof
    \/ InsertLib
    \/ ParsePgarc
    \/ SkipFile
    \/ CompareCellNames
    \/ CheckVoltageVariations
    \/ ComparePinNames
    \/ OutputErrors

Spec == Init /\ [][Next]_vars

----------------------------------------------------------------------------
(* Claims about the main script (Spec)                                     *)

ParsedEndings == {"cdev", "spiprof", "lib", "pgarc"}
IsParsed(filename) == \E e \in ParsedEndings : EndsWith(filename, e)

\* C3: a parse failure partway through file k leaves the store with the rows
\* of the files before it and no row of file k: the aborting pass of the loop
\* adds nothing to the committed tables.
C3_AbortedFileLeavesNoRow ==
    [][(pc = "loop" /\ pc' = "raised in loop") => db' = db]_vars

\* C4: commit is called exactly once per ingested file of type cdev, spiprof,
\* pgarc or lib, however many cells the file has.
C4_OneCommitPerFile ==
    \A k \in DOMAIN commits :
        (IsParsed(files[k]) /\ k < idx) => commits[k] = 1

\* C5: when every file is well-formed (the loop has ended), no check stops
\* the run.
C5_ChecksNeverStopTheRun ==
    pc \notin {"raised in voltages", "raised in pins"}

\* The cell block of a row of lib.
LibBlocks(row) ==
    {b \in Range(Open(row.filename).text) : b.name = row.cell}

\* C6: a lib row carries the area read from its own cell's block; a block
\* without area line gets no row.
C6_AreaFromOwnBlock ==
    \A row \in Range(db.lib) \cup Range(pending.lib) :
        \E b \in LibBlocks(row) :
            /\ AreaLine(b.lines) # 0
            /\ IsFloat(b.lines[AreaLine(b.lines)].value)
            /\ row.area = Float(b.lines[AreaLine(b.lines)].value)

----------------------------------------------------------------------------
(* The checks on their own: the script behind its loop, over stores of two *)
(* cells.  The spiprof rows of and2_1x are the seven variations of 1.0 V   *)
(* but at most MaxMissing of them.                                         *)

MaxMissing == 1

QaCdevRow(c, vpwr, pin) ==
    [cell |-> c, temperature |-> 250000, state |-> Str(<<"s1">>),
     vector |-> Str(<<"v1">>), active_input |-> Str(<<"A">>),
     active_output |-> Str(<<"Y">>), vpwr |-> vpwr, vgnd |-> 0, pin |-> pin,
     esc |-> 5000, esr |-> 125000, leak |-> 5000, filename |-> "qa.cdev"]

QaSpiprofRow(c, vpwr, pin) ==
    [cell |-> c, vpwr |-> vpwr, c1 |-> 5000, r |-> 5000, c2 |-> 5000,
     slew1 |-> 5000, slew2 |-> 5000, state |-> <<"1">>, vector |-> <<"v1">>,
     active_input |-> <<"A">>, active_output |-> <<"Y">>, pin |-> pin,
     peak |-> 5000, area |-> 5000, width |-> 5000]

PgarcRow(c, v, pin) == [cell |-> c, pin |-> pin]

\* The rows of a set of <<cell, voltage, pin>>, in some order.
RECURSIVE RowsOf(_, _)
RowsOf(triples, table) ==
    IF triples = {} THEN <<>>
    ELSE LET t == CHOOSE x \in triples : TRUE
             row == CASE table = "cdev" -> QaCdevRow(t[1], t[2], t[3])
                      [] table = "spiprof" -> QaSpiprofRow(t[1], t[2], t[3])
                      [] table = "pgarc" -> PgarcRow(t[1], t[2], t[3])
         IN <<row>> \o RowsOf(triples \ {t}, table)

SevenOf(nominal) ==
    {Around(variation_percentages[i] * nominal) : i \in DOMAIN variation_percentages}

QaPins == {{"VPWR"}, {"VPWR", "VGND"}}

\* What a table holds for one cell: nothing, or voltages by pins.
QaCdevX == {{}} \cup {{10000, 10003} \X P : P \in QaPins}
                \cup {{10000} \X P : P \in QaPins}
QaCdevY == {{}, {12000} \X {"VGND"}}
QaSpiprofX ==
    {{}} \cup {(SevenOf(10000) \ M) \X P :
                  M \in {m \in SUBSET SevenOf(10000) : Cardinality(m) <= MaxMissing},
                  P \in QaPins}
QaSpiprofY == {{}, {12000} \X {"VPWR"}}
QaPgarcX == {{0} \X P : P \in SUBSET {"VPWR", "VGND"}}
QaPgarcY == {{}, {0} \X {"VPWR"}}

Tag(c, S) == {<<c, t[1], t[2]>> : t \in S}

InitQA ==
    /\ \E cx \in QaCdevX, cy \in QaCdevY, sx \in QaSpiprofX, sy \in QaSpiprofY,
          px \in QaPgarcX, py \in QaPgarcY :
          db = [cdev |-> RowsOf(Tag("and2_1x", cx) \cup Tag("dff_1x", cy), "cdev"),
                spiprof |-> RowsOf(Tag("and2_1x", sx) \cup Tag("dff_1x", sy), "spiprof"),
                pgarc |-> RowsOf(Tag("and2_1x", px) \cup Tag("dff_1x", py), "pgarc"),
                lib |-> <<>>]
    /\ files = <<"qa.cdev", "qa.spiprof", "qa.pgarc">>
    /\ idx = 4
    /\ pc = "loop"
    /\ pending = EmptyDb
    /\ commits = <<1, 1, 1>>
    /\ error_set = {}
    /\ report = NoReport
    /\ cell = NoCell
    /\ sub_cells = <<>>
    /\ parsed = <<>>
    /\ sub_cell_dict = <<>>
    /\ spiprof_cell = NoSpiprofCell

NextQA ==
    \/ CompareCellNames
    \/ CheckVoltageVariations
    \/ ComparePinNames
    \/ OutputErrors

SpecQA == InitQA /\ [][NextQA]_vars

----------------------------------------------------------------------------
(* Claims about the checks (SpecQA)                                        *)

CellsOf(table) == {table[i].cell : i \in DOMAIN table}
PinsOf(table, c) == {table[i].pin : i \in {k \in DOMAIN table : table[k].cell = c}}
VoltagesOf(table, c) ==
    {table[i].vpwr : i \in {k \in DOMAIN table : table[k].cell = c}}

VoltagesChecked == pc \in {"pins", "raised in pins", "report", "done"}
PinsCompared == pc \in {"report", "done"}

\* C9: check_voltage_variations does not stop the run; behind it, for every
\* (cell, nominal voltage) of cdev whose cell has spiprof rows and each of
\* the 7 factors, the diagnostic of the cell and the rounded value is in the
\* error set exactly if the value is not among the cell's spiprof voltages;
\* a cell without spiprof rows has no such diagnostic.
C9_VoltageCoverage ==
    /\ pc # "raised in voltages"
    /\ VoltagesChecked =>
          \A c \in CellsOf(db.cdev) :
              \A nominal \in VoltagesOf(db.cdev, c) :
                  \A v \in SevenOf(nominal) :
                      Prefixed(VoltageExpected(v, c)) \in error_set <=>
                          /\ c \in CellsOf(db.spiprof)
                          /\ v \notin VoltagesOf(db.spiprof, c)

\* C10: behind compare_pin_names, for every (cell, pin) of pgarc the
\* 'pgarc and cdev' diagnostic of the pair is in the error set exactly if
\* cdev has rows for the cell and none with the pin; the same for spiprof.
C10_PinCoverage ==
    PinsCompared =>
        \A i \in DOMAIN db.pgarc :
            LET c == db.pgarc[i].cell
                pin == db.pgarc[i].pin
            IN /\ Prefixed(PinMismatch(pin, "cdev", c)) \in error_set <=>
                      (c \in CellsOf(db.cdev) /\ pin \notin PinsOf(db.cdev, c))
               /\ Prefixed(PinMismatch(pin, "spiprof", c)) \in error_set <=>
                      (c \in CellsOf(db.spiprof) /\ pin \notin PinsOf(db.spiprof, c))

\* A pair with the cdev diagnostic and without the spiprof one, and a cell
\* of pgarc that cdev has no row for.
C10_Witness ==
    /\ PinsCompared
    /\ Prefixed(PinMismatch("VGND", "cdev", "and2_1x")) \in error_set
    /\ Prefixed(PinMismatch("VGND", "spiprof", "and2_1x")) \notin error_set
    /\ \E i \in DOMAIN db.pgarc : db.pgarc[i].cell \notin CellsOf(db.cdev)

\* A pair of pgarc whose cell has no cdev row and has spiprof rows.
CdevAbsent(i) ==
    /\ db.pgarc[i].cell \notin CellsOf(db.cdev)
    /\ db.pgarc[i].cell \in CellsOf(db.spiprof)

\* C11: for a pair (cell, pin) of pgarc whose cell has no cdev row and has
\* spiprof rows, compare_pin_names does not stop the run, records no cdev
\* diagnostic for the pair, and records the spiprof diagnostic exactly if
\* the pin is not among the cell's spiprof pins; also when cdev has no row
\* at all.
C11_CdevSkippedSpiprofChecked ==
    \A i \in DOMAIN db.pgarc :
        LET c == db.pgarc[i].cell
            pin == db.pgarc[i].pin
        IN CdevAbsent(i) =>
              /\ pc # "raised in pins"
              /\ PinsCompared =>
                    /\ Prefixed(PinMismatch(pin, "cdev", c)) \notin error_set
                    /\ Prefixed(PinMismatch(pin, "spiprof", c)) \in error_set
                          <=> pin \notin PinsOf(db.spiprof, c)

NamesCompared ==
    pc \in {"voltages", "raised in voltages", "pins", "raised in pins",
            "report", "done"}

\* The 'cell <c> in pgarc but not in <view>' diagnostics of the error set.
NameDiagnostics(tail) ==
    {m \in error_set : Len(m.text) = 3 /\ m.text[1] = "cell " /\ m.text[3] = tail}

\* C12: behind compare_cell_names the 'in pgarc but not in cdev' diagnostics
\* of the error set are one for each distinct cell with pgarc rows and no
\* cdev row, however many pin rows pgarc holds for it, and none for a cell
\* that cdev has; the same for spiprof.
C12_NameCoverage ==
    NamesCompared =>
        /\ NameDiagnostics(" in pgarc but not in cdev") =
              {Prefixed(NotInCdev(c)) : c \in CellsOf(db.pgarc) \ CellsOf(db.cdev)}
        /\ Cardinality(NameDiagnostics(" in pgarc but not in cdev")) =
              Cardinality(CellsOf(db.pgarc) \ CellsOf(db.cdev))
        /\ NameDiagnostics(" in pgarc but not in spiprof") =
              {Prefixed(NotInSpiprof(c)) :
                  c \in CellsOf(db.pgarc) \ CellsOf(db.spiprof)}
        /\ Cardinality(NameDiagnostics(" in pgarc but not in spiprof")) =
              Cardinality(CellsOf(db.pgarc) \ CellsOf(db.spiprof))

\* A cell with two pin rows in pgarc and no cdev row, one with no spiprof
\* row, and a cell of pgarc that cdev has.
C12_Witness ==
    /\ NamesCompared
    /\ \E i, j \in DOMAIN db.pgarc :
          /\ i # j
          /\ db.pgarc[i].cell = db.pgarc[j].cell
          /\ db.pgarc[i].cell \notin CellsOf(db.cdev)
          /\ Prefixed(NotInCdev(db.pgarc[i].cell)) \in error_set
    /\ \E i \in DOMAIN db.pgarc :
          Prefixed(NotInSpiprof(db.pgarc[i].cell)) \in error_set
    /\ \E i \in DOMAIN db.pgarc : db.pgarc[i].cell \in CellsOf(db.cdev)

\* The messages behind the entries of the error set, and two further ones.
Unprefixed(m) == [m EXCEPT !.prefix = ""]
Messages ==
    {Unprefixed(m) : m \in error_set}
        \cup {NotInCdev("and2_1x"), PinMismatch("VGND", "cdev", "dff_1x")}

\* error(message) adds the prefixed message and nothing else, and a second
\* call with the same message changes nothing.
ErrorDeduplicates ==
    /\ \A m \in error_set : m.prefix = "ERROR: "
    /\ \A message \in Messages :
          /\ error(error_set, message) = error_set \cup {Prefixed(message)}
          /\ error(error(error_set, message), message) = error(error_set, message)
          /\ Unprefixed(Prefixed(message)) = message

\* C13: the error set holds prefixed messages, each once; error() with a
\* recorded message leaves the set unchanged, with a new one adds exactly
\* its prefixed form; no step of the run removes an entry.
C13_ErrorSetGrows ==
    /\ []ErrorDeduplicates
    /\ [][error_set \subseteq error_set']_vars

\* The run is over with several diagnostics, one of them recorded for two
\* rows of pgarc.
C13_Witness ==
    /\ pc = "done"
    /\ Cardinality(error_set) >= 2
    /\ \E i, j \in DOMAIN db.pgarc :
          /\ i # j
          /\ db.pgarc[i].cell = db.pgarc[j].cell
          /\ \/ Prefixed(NotInCdev(db.pgarc[i].cell)) \in error_set
             \/ Prefixed(NotInSpiprof(db.pgarc[i].cell)) \in error_set

\* C14: output_errors writes the report file exactly if the error set is not
\* empty; the file then holds every entry of the set once, one per line,
\* and the user is pointed to it; with an empty set nothing is written and
\* the success message is printed.
C14_ReportIffErrors ==
    pc = "done" =>
        /\ report.written <=> error_set # {}
        /\ report.written =>
              /\ Range(report.lines) = error_set
              /\ Len(report.lines) = Cardinality(error_set)
              /\ report.stdout = "Errors found. Please refer to "
        /\ ~report.written =>
              /\ report.lines = <<>>
              /\ report.stdout = "No errors found."

\* A report of several lines has been written.
C14_Witness ==
    /\ pc = "done"
    /\ report.written
    /\ Len(report.lines) >= 2

\* A run that ends without a report.
NoReportWritten == pc = "done" /\ ~report.written /\ report.stdout = "No errors found."

----------------------------------------------------------------------------
(* The main script over the four minimal files of one cell, in any order,  *)
(* with or without a file of another ending among them.                    *)

\* The lists of four minimal files of one cell: its cdev and its spiprof
\* file at 1.0 V or at 0 V, its pgarc and its lib file.
MinimalFiles ==
    {{"and2_1x.pgarc", "and2_1x.lib", cdev, spiprof} :
        cdev \in {"and2_1x.cdev", "and2_1x_0v.cdev"},
        spiprof \in {"and2_1x.spiprof", "and2_1x_0v.spiprof"}}
    \cup
    {{"dff_1x.pgarc", "dff_1x.lib", cdev, spiprof} :
        cdev \in {"dff_1x.cdev", "dff_1x_0v.cdev"},
        spiprof \in {"dff_1x.spiprof", "dff_1x_0v.spiprof"}}

\* The orders of a set of names.
Orders(S) ==
    {q \in SeqsUpTo(S, Cardinality(S)) :
        Len(q) = Cardinality(S) /\ \A i, j \in DOMAIN q : i # j => q[i] # q[j]}

InitMinimal ==
    /\ \E F \in MinimalFiles :
          files \in Orders(F) \cup {<<"readme.txt">> \o q : q \in Orders(F)}
    /\ idx = 1
    /\ pc = "loop"
    /\ db = EmptyDb
    /\ pending = EmptyDb
    /\ commits = <<>>
    /\ error_set = {}
    /\ report = NoReport
    /\ cell = NoCell
    /\ sub_cells = <<>>
    /\ parsed = <<>>
    /\ sub_cell_dict = <<>>
    /\ spiprof_cell = NoSpiprofCell

SpecMinimal == InitMinimal /\ [][Next]_vars

\* The cell of the run's files.
MinimalCell ==
    IF \E i \in DOMAIN files : files[i] = "and2_1x.pgarc" THEN "and2_1x"
    ELSE "dff_1x"

\* The rows the four minimal files leave: one cdev row, two spiprof rows, one
\* pgarc row and one lib row, all of one cell.
MinimalRows ==
    /\ Len(db.cdev) = 1
    /\ Len(db.spiprof) = 2
    /\ Len(db.pgarc) = 1
    /\ Len(db.lib) = 1
    /\ \A t \in {"cdev", "spiprof", "pgarc", "lib"} : CellsOf(db[t]) = {MinimalCell}

\* C15 as stated: the run over the four minimal files ends with these rows
\* and an empty error set.
C15_EmptyReport ==
    pc = "done" => (MinimalRows /\ error_set = {} /\ ~report.written)

\* What the minimal files leave in the error set: the variations of the
\* nominal voltage that the two spiprof rows do not carry, and for a
\* sequential name the state count.
MinimalDiagnostics ==
    {Prefixed(VoltageExpected(v, MinimalCell)) :
        v \in SevenOf(db.cdev[1].vpwr) \ VoltagesOf(db.spiprof, MinimalCell)}
        \cup (IF StartsWith(MinimalCell, "dff")
              THEN {Prefixed(StateCount(MinimalCell, "sequential", 4, 2))}
              ELSE {})

\* C15: the run over the four minimal files ends with one cdev row, two
\* spiprof rows, one pgarc row and one lib row of one cell; the error set
\* holds one diagnostic for each of the variations of the cdev voltage that
\* the spiprof rows, which carry one voltage, do not have (six of the seven
\* of a voltage other than 0), and the state count of a sequential cell
\* name, and nothing else.
C15_EndToEnd ==
    /\ pc \notin {"raised in loop", "raised in voltages", "raised in pins"}
    /\ pc = "done" =>
          /\ MinimalRows
          /\ Cardinality(VoltagesOf(db.spiprof, MinimalCell)) = 1
          /\ error_set = MinimalDiagnostics
          /\ db.cdev[1].vpwr # 0 =>
                Cardinality(error_set \ {Prefixed(StateCount(MinimalCell,
                                             "sequential", 4, 2))}) >= 6
          /\ report.written <=> error_set # {}

\* The run over the files of and2_1x at 1.0 V is over, with six diagnostics.
C15_Witness ==
    /\ pc = "done"
    /\ MinimalCell = "and2_1x"
    /\ db.cdev[1].vpwr = 10000
    /\ VoltagesOf(db.spiprof, MinimalCell) = {10000}
    /\ Cardinality(error_set) = 6

\* The run over the files of and2_1x at 0 V is over, with no diagnostic.
ZeroVoltRun ==
    /\ pc = "done"
    /\ db.cdev[1].vpwr = 0
    /\ error_set = {}

----------------------------------------------------------------------------
(* Claims about the order of the run (Spec)                                *)

Tables == {"cdev", "spiprof", "pgarc", "lib"}

\* The steps the script can take from one place to the next.
ScriptOrder ==
    {<<"loop", "loop">>, <<"loop", "raised in loop">>, <<"loop", "voltages">>,
     <<"voltages", "pins">>, <<"voltages", "raised in voltages">>,
     <<"pins", "report">>, <<"pins", "raised in pins">>, <<"report", "done">>}

\* The rows a step adds to a table.
Added(t) == SubSeq(db'[t], Len(db[t]) + 1, Len(db'[t]))

\* A step of the run keeps the order of the script.
OrderedStep ==
    /\ <<pc, pc'>> \in ScriptOrder
    /\ files' = files
    /\ idx' \in {idx, idx + 1}
    \* a file is left behind with all its rows committed
    /\ idx' = idx + 1 => (pc = "loop" /\ idx <= Len(files) /\ pending' = EmptyDb)
    \* rows are only added, by the loop, from the file it is at
    /\ \A t \in Tables :
          /\ Len(db'[t]) >= Len(db[t])
          /\ SubSeq(db'[t], 1, Len(db[t])) = db[t]
          /\ Added(t) # <<>> =>
                /\ pc = "loop"
                /\ idx <= Len(files)
                /\ EndsWith(files[idx], t)
                /\ t \in {"cdev", "lib"} =>
                      \A k \in DOMAIN Added(t) : Added(t)[k].filename = files[idx]
    \* the checks and the report: behind the last file, on the store as it
    \* was committed, one after the other
    /\ pc' \notin {"loop", "raised in loop"} =>
          /\ idx > Len(files)
          /\ db' = db
          /\ pending = EmptyDb
    /\ report' # report => (pc = "report" /\ pc' = "done")

\* C16: the files are taken in the order of the list, the rows of a file are
\* committed before the next file is begun; compare_cell_names,
\* check_voltage_variations and compare_pin_names run once each, in this
\* order, behind the last file and on the committed store, and output_errors
\* once behind them.
C16_RunOrder == [][OrderedStep]_vars

\* A run over three files of three endings is over, with rows in the store.
C16_Witness ==
    /\ pc = "done"
    /\ Len(files) = 3
    /\ commits = <<1, 1, 1>>
    /\ db.cdev # <<>> /\ db.spiprof # <<>> /\ db.pgarc # <<>>

----------------------------------------------------------------------------
(* Claims about the rows of a spiprof cell (SpecSpiprof)                   *)

\* <<g, s, l>>: the pin rows of the cell, line l of state block s of
\* parameter group g.
PinRows ==
    UNION {UNION {{<<g, b, l>> :
                      l \in {k \in DOMAIN spiprof_cell.groups[g].body[b].lines :
                                spiprof_cell.groups[g].body[b].lines[k]
                                    \notin {<<>>, <<"Info:", "Done">>}}} :
                  b \in DOMAIN spiprof_cell.groups[g].body} :
           g \in {k \in DOMAIN spiprof_cell.groups :
                     ~spiprof_cell.groups[k].blank}}

Before(u, t) ==
    \/ u[1] < t[1]
    \/ u[1] = t[1] /\ u[2] < t[2]
    \/ u[1] = t[1] /\ u[2] = t[2] /\ u[3] < t[3]

\* The place of a pin row among the pin rows of the cell.
Place(t) == 1 + Cardinality({u \in PinRows : Before(u, t)})

\* The words right of '<name> = ' in a list of fragments.
WordsOf(frags, name) ==
    frags[CHOOSE i \in DOMAIN frags : frags[i].eq /\ frags[i].variable = name].data

\* The row of a pin row carries the values of its group, its state block and
\* its line.
RowOf(row, t) ==
    LET g == spiprof_cell.groups[t[1]]
        b == g.body[t[2]]
        line == b.lines[t[3]]
    IN /\ row.cell = spiprof_cell.head[1]
       /\ row.vpwr = Float(WordsOf(g.header, "VPWR")[1])
       /\ row.c1 = Float(WordsOf(g.header, "C1")[1])
       /\ row.r = Float(WordsOf(g.header, "R")[1])
       /\ row.c2 = Float(WordsOf(g.header, "C2")[1])
       /\ row.slew1 = Float(WordsOf(g.header, "Slew1")[1])
       /\ row.slew2 = Float(WordsOf(g.header, "Slew2")[1])
       /\ row.state = <<b.state>>
       /\ row.vector = WordsOf(b.parameters, "vector")
       /\ row.active_input = WordsOf(b.parameters, "active_input")
       /\ row.active_output = WordsOf(b.parameters, "active_output")
       /\ row.pin = line[1]
       /\ row.peak = Float(line[2])
       /\ row.area = Float(line[4])
       /\ row.width = Float(line[6])

\* C17: a spiprof cell that is parsed leaves exactly one row for each pin row
\* of each state block of each parameter group, in their order, with the
\* group's voltage and process parameters and the state block's scalars,
\* whether or not a state-count diagnostic was recorded for the cell.
C17_OneRowPerPinRow ==
    pc = "return" =>
        /\ Len(pending.spiprof) = Cardinality(PinRows)
        /\ \A t \in PinRows : RowOf(pending.spiprof[Place(t)], t)

\* A cell with a state-count diagnostic, rows of two voltages and a state
\* block of two pin rows.
C17_Witness ==
    /\ pc = "return"
    /\ StateCountDiagnostics # {}
    /\ Cardinality({pending.spiprof[k].vpwr : k \in DOMAIN pending.spiprof}) = 2
    /\ \E t \in PinRows : t[3] = 2
    /\ Len(pending.spiprof) >= 4

----------------------------------------------------------------------------
(* Claims about the line scanner of parse_cdev_cell (SpecCdev)             *)

RECURSIVE Concat(_)
Concat(ss) == IF ss = <<>> THEN <<>> ELSE Head(ss) \o Concat(Tail(ss))

\* The lines that are no pin line and stand right behind a pin line.
PinToParam ==
    {i \in 2..Len(cell.lines) :
        ~IsPinLine(cell.lines[i]) /\ IsPinLine(cell.lines[i - 1])}

\* Where in the lines sub cell k begins.
StartOf(k) == 1 + Len(Concat(SubSeq(sub_cells, 1, k - 1)))

\* C18: the sub cells of the scanner, one after the other, are the lines of
\* the cell; a sub cell behind the first begins exactly at each line that is
\* no pin line and follows a pin line, so there are one more sub cells than
\* such lines; in a sub cell no pin line stands before a line that is none.
C18_ScannerPartitions ==
    pc # "call" =>
        /\ Concat(sub_cells) = cell.lines
        /\ {StartOf(k) : k \in 2..Len(sub_cells)} = PinToParam
        /\ Len(sub_cells) = 1 + Cardinality(PinToParam)
        /\ \A k \in DOMAIN sub_cells :
              \A i, j \in DOMAIN sub_cells[k] :
                  (IsPinLine(sub_cells[k][i]) /\ ~IsPinLine(sub_cells[k][j]))
                      => j < i

\* Four lines in two sub cells, the first of parameter lines and pin lines.
C18_Witness ==
    /\ pc # "call"
    /\ Len(cell.lines) = 4
    /\ Len(sub_cells) = 2
    /\ \E i, j \in DOMAIN sub_cells[1] :
          ~IsPinLine(sub_cells[1][i]) /\ IsPinLine(sub_cells[1][j])
    /\ \E i \in 2..4 : ~IsPinLine(cell.lines[i]) /\ ~IsPinLine(cell.lines[i - 1])

====
